---- MODULE Spec2Model ----
(***************************************************************************)
(* Order / seat / selection lifecycle of the table-ordering application   *)
(* (orders/views.py, orders/models.py, orders/forms.py,                   *)
(* orders/decorators.py, orders/admin.py).                                 *)
(*                                                                         *)
(* The database rows are the state; every view is one action, except       *)
(* start_order, whose transaction.atomic() block is open between its two   *)
(* steps so that other requests can observe the database meanwhile.        *)
(***************************************************************************)
EXTENDS Integers, Sequences, FiniteSets, TLC

(***************************************************************************)
(* Bounds of the model.                                                    *)
(***************************************************************************)
\* requests to the order, seat and selection views handled in one behaviour
MaxRequests == 3

\* the same where only selections are put on the seats of small orders
MaxSelectionRequests == 4
MaxMoveRequests == 6

(***************************************************************************)
(* Reference data (rows created through the admin before the shift).       *)
(***************************************************************************)
Tables == {1, 2}
StaffIds == {1, 2, 3}
MenuItems == {1, 2}
Modifiers == {1, 2}
Temperatures == {1}
Rooms == {1}

\* Python's None, where a string is expected: no real string holds this element
None == <<"None">>

(***************************************************************************)
(* Strings are sequences of one-character strings, so that str(), int()    *)
(* and str.isdigit() are computed and not assumed.                         *)
(***************************************************************************)
DigitChars == <<"0", "1", "2", "3", "4", "5", "6", "7", "8", "9">>

DigitSet == {DigitChars[i] : i \in 1..10}

DigitValue(c) == (CHOOSE i \in 1..10 : DigitChars[i] = c) - 1

RECURSIVE StrNat(_)
StrNat(n) ==
    IF n < 10 THEN <<DigitChars[n + 1]>>
    ELSE StrNat(n \div 10) \o <<DigitChars[(n % 10) + 1]>>

\* str(i)
StrOf(i) == IF i < 0 THEN <<"-">> \o StrNat(0 - i) ELSE StrNat(i)

\* str.isdigit(): non-empty and every character a digit
IsDigit(s) == Len(s) > 0 /\ \A i \in 1..Len(s) : s[i] \in DigitSet

RECURSIVE IntOfDigits(_)
IntOfDigits(s) ==
    IF Len(s) = 0 THEN 0
    ELSE 10 * IntOfDigits(SubSeq(s, 1, Len(s) - 1)) + DigitValue(s[Len(s)])

\* int(s) on a string raises ValueError unless s is an optional sign and digits
IsSigned(s) == Len(s) > 1 /\ s[1] \in {"-", "+"} /\ IsDigit(Tail(s))

PyIntOk(s) == IsDigit(s) \/ IsSigned(s)

\* int(s), where it does not raise
PyInt(s) ==
    IF IsDigit(s) THEN IntOfDigits(s)
    ELSE IF s[1] = "-" THEN 0 - IntOfDigits(Tail(s))
    ELSE IntOfDigits(Tail(s))

\* range(a, b + 1)
Range(a, b) == a..b

Whitespace == {" ", "\n"}

\* str.strip()
RECURSIVE Strip(_)
Strip(s) ==
    IF Len(s) = 0 THEN s
    ELSE IF s[1] \in Whitespace THEN Strip(Tail(s))
    ELSE IF s[Len(s)] \in Whitespace THEN Strip(SubSeq(s, 1, Len(s) - 1))
    ELSE s

(***************************************************************************)
(* State.                                                                  *)
(***************************************************************************)
VARIABLES
    tables,         \* Table rows: the primary keys
    items,          \* MenuItem rows: the primary keys
    session,        \* request.session["staff_id"] of the tablet, 0 when absent
    orders,         \* Order rows: id -> [table, opened_by_staff, printed]
    seats,          \* Seat rows: id -> [order, label, assigned_to]
    selections,     \* SeatSelection rows: id -> [seat, item, notes, modifiers, temperatures]
    stafflog,       \* StaffLog rows in insertion order
    nextOrderId,    \* auto-increment primary keys
    nextSeatId,
    nextSelId,
    txn,            \* the open transaction.atomic() block of start_order
    adding,         \* add_seat requests between their SELECT and their INSERT
    workers,        \* how many requests the server handles at a time
    budget,         \* how many requests the tablets send in the behaviour
    response,       \* the response of the last handled request
    nreq            \* requests to the order, seat and selection views so far

vars == <<tables, items, session, orders, seats, selections, stafflog, nextOrderId, nextSeatId,
          nextSelId, txn, adding, workers, budget, response, nreq>>

\* the rows the order views write
db == <<orders, seats, selections>>

\* a table with no rows
NoRows == [i \in {} |-> 0]

\* request.POST of start_order / join_order: a field is None when absent
NoPost == [my_start |-> None, my_end |-> None, seat_count |-> None,
           my_seat_start |-> None, my_seat_end |-> None]

NoTxn == [active |-> FALSE, order |-> 0, table |-> 0, staff |-> 0,
          labels |-> <<>>, post |-> NoPost]

\* the slots of add_seat requests in flight
Slots == {1, 2}

NoAdding == [active |-> FALSE, order |-> 0, label |-> <<>>]

\* a response: the view, the outcome, the row the request named, the seat labels
\* the message names, the exception behind a server error, and the labels of the
\* seats a rendered page shows, in the order it shows them
NoResponse ==
    [op |-> "none", status |-> "none", target |-> 0, info |-> {}, error |-> "",
     seats |-> <<>>]

Resp(op, status, target, info) ==
    [op |-> op, status |-> status, target |-> target, info |-> info, error |-> "",
     seats |-> <<>>]

\* an uncaught exception: HTTP 500
ServerError(op, target, exception) ==
    [op |-> op, status |-> "error500", target |-> target, info |-> {},
     error |-> exception, seats |-> <<>>]

InitRows ==
    /\ tables = Tables
    /\ items = MenuItems
    /\ session = 0
    /\ orders = NoRows
    /\ seats = NoRows
    /\ selections = NoRows
    /\ stafflog = <<>>
    /\ nextOrderId = 1
    /\ nextSeatId = 1
    /\ nextSelId = 1
    /\ txn = NoTxn
    /\ adding = [w \in Slots |-> NoAdding]
    /\ response = NoResponse
    /\ nreq = 0

\* one worker: requests are handled one after the other
Init == InitRows /\ workers = 1 /\ budget = MaxRequests

\* one worker, and room for one more request
InitSelections == InitRows /\ workers = 1 /\ budget = MaxSelectionRequests

\* one worker, and enough requests to move a selection between two orders
InitMoves == InitRows /\ workers = 1 /\ budget = MaxMoveRequests

\* two workers: a second request may run while one is in flight
InitConcurrent == InitRows /\ workers = 2 /\ budget = MaxRequests

\* requests in flight
InFlight ==
    (IF txn.active THEN 1 ELSE 0) + Cardinality({w \in Slots : adding[w].active})

\* a worker is free to take a request, and the behaviour has room for it
Accept == nreq < budget /\ InFlight < workers

(***************************************************************************)
(* Storage layer (orders/models.py).                                       *)
(***************************************************************************)
\* rows of f without the keys in gone
Without(f, gone) == [i \in DOMAIN f \ gone |-> f[i]]

\* order.seats
SeatsOf(o) == {s \in DOMAIN seats : seats[s].order = o}

\* a delete that takes the selections of every seat with it
SelectionsOf_All(s) == DOMAIN selections

\* seat.selections
SelectionsOf(s) == {x \in DOMAIN selections : selections[x].seat = s}

\* a constraint that compares the label with the seats of the other orders
UniqueTogether_OtherOrders(o, label) ==
    \A s \in DOMAIN seats : ~(seats[s].order # o /\ seats[s].label = label)

\* the table without its unique constraint
UniqueTogether_Dropped(o, label) == TRUE

\* Seat.Meta.unique_together = ("order", "label"): may a row (o, label) be inserted
UniqueTogether(o, label) ==
    \A s \in DOMAIN seats : ~(seats[s].order = o /\ seats[s].label = label)

\* the filter without printed=False
OpenOrders_AnyOrder(t) == {o \in DOMAIN orders : orders[o].table = t}

\* Order.objects.filter(table=t, printed=False), Meta.ordering = ["-opened_at"]
OpenOrders(t) == {o \in DOMAIN orders : orders[o].table = t /\ ~orders[o].printed}

\* .first() of that queryset: the newest one (ids grow with opened_at), 0 if empty
FirstOpenOrder(t) ==
    IF OpenOrders(t) = {} THEN 0
    ELSE CHOOSE o \in OpenOrders(t) : \A p \in OpenOrders(t) : p <= o

\* StaffLog.objects.create(staff_id=..., action=...)
LogEntry(staff, action, order, table) ==
    [staff |-> staff, action |-> action, order |-> order, table |-> table]

\* a write that keeps the newest entry only
Logged_Latest(entry) == <<entry>>

\* the log after the INSERT of one more row
Logged(entry) == Append(stafflog, entry)

(***************************************************************************)
(* staff_required (orders/decorators.py).                                  *)
(***************************************************************************)
\* a decorator that lets every request through
StaffRequired_Open == TRUE

\* request.session.get("staff_id") is set
StaffRequired == session # 0

(***************************************************************************)
(* Staff login / logout.                                                   *)
(***************************************************************************)
\* the raw code whose hash each StaffMember stores: nothing keeps two members
\* from being given the same code, and members 2 and 3 have been
StaffCodes == <<StrOf(11), StrOf(22), StrOf(22)>>

StaffCode(m) == StaffCodes[m]

\* a check that lets every code through
CheckCode_Any(m, code) == TRUE

\* StaffMember.check_code: check_password(raw_code.strip(), self.code_hash)
CheckCode(m, code) == StaffCode(m) = Strip(code)

\* the members the loop of staff_login can stop at: StaffMember has no Meta.ordering,
\* so objects.all() yields the rows in an order the database chooses, and the first
\* member whose hash matches is any member whose hash matches
Matches(code) == {m \in StaffIds : CheckCode(m, code)}

StaffLogin(raw_code) ==
    /\ InFlight < workers
    /\ nreq' = nreq
    /\ LET code == Strip(raw_code) IN
       IF Matches(code) # {}
       THEN \E staff \in Matches(code) :
                /\ session' = staff
                /\ response' = Resp("staff_login", "ok", staff, {})
       ELSE /\ session' = session
            /\ response' = Resp("staff_login", "invalid", 0, {})
    /\ UNCHANGED <<tables, items, db, stafflog, nextOrderId, nextSeatId, nextSelId, txn, adding, workers, budget>>

StaffLogout ==
    /\ InFlight < workers
    /\ nreq' = nreq
    /\ session' = 0
    /\ response' = Resp("staff_logout", "ok", 0, {})
    /\ UNCHANGED <<tables, items, db, stafflog, nextOrderId, nextSeatId, nextSelId, txn, adding, workers, budget>>

(***************************************************************************)
(* The pages behind staff_required: dashboard, room, tickets.              *)
(***************************************************************************)
\* a page behind staff_required that writes one audit entry; found is whether
\* get_object_or_404 finds the row the URL names
GuardedPage(op, key, found, entry) ==
    /\ Accept
    /\ nreq' = nreq + 1
    /\ IF ~StaffRequired
       THEN /\ response' = Resp(op, "login", key, {})
            /\ UNCHANGED stafflog
       ELSE IF ~found
       THEN /\ response' = Resp(op, "not_found", key, {})
            /\ UNCHANGED stafflog
       ELSE /\ stafflog' = Logged(entry)
            /\ response' = Resp(op, "ok", key, {})
    /\ UNCHANGED <<tables, items, session, db, nextOrderId, nextSeatId, nextSelId, txn,
                   adding, workers, budget>>

RoomDashboard ==
    GuardedPage("room_dashboard", 0, TRUE,
                LogEntry(session, "opened room dashboard", 0, 0))

RoomTables(room) ==
    GuardedPage("room_tables", room, room \in Rooms,
                LogEntry(session, "viewed tables for room", 0, 0))

PrintRoomTicket(room) ==
    GuardedPage("print_room_ticket", room, room \in Rooms,
                LogEntry(session, "printed consolidated ticket for room", 0, 0))

PrintTicket(o) ==
    GuardedPage("print_ticket", o, o \in DOMAIN orders,
                LogEntry(session, "printed ticket for order", o,
                         IF o \in DOMAIN orders THEN orders[o].table ELSE 0))

(***************************************************************************)
(* start_order.                                                            *)
(***************************************************************************)
\* seat_count when the POST has none
DefaultSeatCount == 12

\* int(request.POST.get("seat_count", 12)) does not raise
PostSeatCountOk(post) == post.seat_count = None \/ PyIntOk(post.seat_count)

\* int(request.POST.get("seat_count", 12))
PostSeatCount(post) ==
    IF post.seat_count = None THEN DefaultSeatCount ELSE PyInt(post.seat_count)

\* both range fields are present in the POST
HasRange(post) == post.my_start # None /\ post.my_end # None

\* the integers whose seats start_order creates, in creation order
StartSeatNumbers(post) ==
    IF HasRange(post)
    THEN Range(PyInt(post.my_start), PyInt(post.my_end))
    ELSE Range(1, PostSeatCount(post))

\* the ascending enumeration of a finite set of integers
RECURSIVE Ascending(_)
Ascending(S) ==
    IF S = {} THEN <<>>
    ELSE LET m == CHOOSE x \in S : \A y \in S : x <= y
         IN <<m>> \o Ascending(S \ {m})

\* seats_to_create: one Seat(order, label=str(i), assigned_to) per i
SeatsToCreate(numbers, assigned) ==
    [k \in 1..Len(Ascending(numbers)) |->
        [label |-> StrOf(Ascending(numbers)[k]), assigned_to |-> assigned]]

\* the rows bulk_create inserts for order o, with fresh primary keys
BulkRows(o, batch) ==
    [i \in nextSeatId..(nextSeatId + Len(batch) - 1) |->
        [order |-> o,
         label |-> batch[i - nextSeatId + 1].label,
         assigned_to |-> batch[i - nextSeatId + 1].assigned_to]]

\* the block left out: every statement commits as it runs
OrderVisibleBeforeCommit_Autocommit == TRUE

\* with transaction.atomic(): the INSERT of the Order is invisible to other
\* requests until the block exits
OrderVisibleBeforeCommit == FALSE

\* the guard, the parsing and Order.objects.create of start_order
StartOrderBegin(t, post) ==
    /\ Accept
    /\ ~txn.active
    /\ nreq' = nreq + 1
    /\ IF ~StaffRequired
       THEN /\ response' = Resp("start_order", "login", t, {})
            /\ UNCHANGED <<db, nextOrderId, txn>>
       ELSE IF t \notin tables
       THEN /\ response' = Resp("start_order", "not_found", t, {})
            /\ UNCHANGED <<db, nextOrderId, txn>>
       ELSE IF ~PostSeatCountOk(post)
       THEN /\ response' = ServerError("start_order", t, "ValueError")
            /\ UNCHANGED <<db, nextOrderId, txn>>
       ELSE IF HasRange(post)
               /\ ~(PyIntOk(post.my_start) /\ PyIntOk(post.my_end))
       THEN /\ response' = Resp("start_order", "invalid", t, {})
            /\ UNCHANGED <<db, nextOrderId, txn>>
       ELSE /\ txn' = [active |-> TRUE, order |-> nextOrderId, table |-> t,
                       staff |-> session,
                       labels |-> SeatsToCreate(StartSeatNumbers(post), 0),
                       post |-> post]
            /\ nextOrderId' = nextOrderId + 1
            /\ orders' = IF OrderVisibleBeforeCommit
                         THEN orders @@ (nextOrderId :>
                                [table |-> t, opened_by_staff |-> session,
                                 printed |-> FALSE])
                         ELSE orders
            /\ UNCHANGED <<seats, selections, response>>
    /\ UNCHANGED <<tables, items, session, stafflog, nextSeatId, nextSelId, adding, workers, budget>>

\* Seat.objects.bulk_create succeeds: the block commits, then the audit entry
StartOrderCommit ==
    /\ txn.active
    /\ orders' = orders @@ (txn.order :>
                    [table |-> txn.table, opened_by_staff |-> txn.staff,
                     printed |-> FALSE])
    /\ seats' = seats @@ BulkRows(txn.order, txn.labels)
    /\ nextSeatId' = nextSeatId + Len(txn.labels)
    /\ stafflog' = Logged(LogEntry(txn.staff, "started order", txn.order, txn.table))
    /\ response' = Resp("start_order", "ok", txn.order,
                        {txn.labels[k].label : k \in 1..Len(txn.labels)})
    /\ txn' = NoTxn
    /\ UNCHANGED <<tables, items, session, selections, nextOrderId, nextSelId, nreq, adding, workers, budget>>

\* Seat.objects.bulk_create raises: the block rolls back and the request fails
StartOrderRollback ==
    /\ txn.active
    /\ orders' = Without(orders, {txn.order})
    /\ response' = ServerError("start_order", txn.table, "DatabaseError")
    /\ txn' = NoTxn
    /\ UNCHANGED <<tables, items, session, seats, selections, stafflog, nextOrderId, nextSeatId,
                   nextSelId, nreq, adding, workers, budget>>

(***************************************************************************)
(* StartOrderForm (orders/forms.py), as join_order uses it.                *)
(***************************************************************************)
\* an optional IntegerField left empty cleans to None
FieldEmpty(v) == v = None \/ v = <<>>

\* IntegerField(min_value=1, required=False) accepts the submitted value
FieldOk(v) == FieldEmpty(v) \/ (PyIntOk(v) /\ PyInt(v) >= 1)

\* StartOrderForm.clean: both-or-neither, start <= end, end <= seat_count
CleanOk(post) ==
    LET start == post.my_seat_start
        end == post.my_seat_end
        count == post.seat_count
    IN /\ FieldEmpty(start) = FieldEmpty(end)
       /\ (~FieldEmpty(start) /\ ~FieldEmpty(end)) =>
            /\ PyInt(start) <= PyInt(end)
            /\ FieldEmpty(count) \/ PyInt(end) <= PyInt(count)

\* form.is_valid()
FormValid(post) ==
    /\ FieldOk(post.seat_count)
    /\ FieldOk(post.my_seat_start)
    /\ FieldOk(post.my_seat_end)
    /\ CleanOk(post)

(***************************************************************************)
(* join_order.                                                             *)
(***************************************************************************)
\* Past the form, both branches call existing_numeric_labels(order) before any
\* bulk_create. No statement of views.py binds that name and nothing imports it:
\* the call raises NameError and the request ends as a server error.
JoinOrder(t, post) ==
    /\ Accept
    /\ nreq' = nreq + 1
    /\ IF t \notin tables
       THEN response' = Resp("join_order", "not_found", t, {})
       ELSE IF FirstOpenOrder(t) = 0
       THEN response' = Resp("join_order", "no_order", t, {})
       ELSE IF ~FormValid(post)
       THEN response' = Resp("join_order", "invalid", t, {})
       ELSE response' = ServerError("join_order", t, "NameError")
    /\ UNCHANGED <<tables, items, session, db, stafflog, nextOrderId, nextSeatId, nextSelId, txn, adding, workers, budget>>

(***************************************************************************)
(* close_order.                                                            *)
(***************************************************************************)
\* a cascade that reaches the seats of every order
CascadeSeats_All(o) == DOMAIN seats

\* the rows order.delete() removes through on_delete=CASCADE
CascadeSeats(o) == SeatsOf(o)

\* SeatSelection.seat without the cascade
CascadeSelections_None(o) == {}

CascadeSelections(o) == {x \in DOMAIN selections : selections[x].seat \in SeatsOf(o)}

CloseOrder(o) ==
    /\ Accept
    /\ nreq' = nreq + 1
    /\ IF o \notin DOMAIN orders
       THEN /\ response' = Resp("close_order", "not_found", o, {})
            /\ UNCHANGED <<db, stafflog>>
       ELSE /\ stafflog' = IF session # 0
                           THEN Logged(LogEntry(session, "closed order", o, orders[o].table))
                           ELSE stafflog
            /\ orders' = Without(orders, {o})
            /\ seats' = Without(seats, CascadeSeats(o))
            /\ selections' = Without(selections, CascadeSelections(o))
            /\ response' = Resp("close_order", "ok", o, {})
    /\ UNCHANGED <<tables, items, session, nextOrderId, nextSeatId, nextSelId, txn, adding, workers, budget>>

(***************************************************************************)
(* add_seat / remove_seat.                                                 *)
(***************************************************************************)
\* numeric_labels = [int(lbl) for lbl in existing_labels if lbl.isdigit()]
NumericLabels(o) ==
    {IntOfDigits(seats[s].label) : s \in {x \in SeatsOf(o) : IsDigit(seats[x].label)}}

\* max(numeric_labels, default=0)
MaxOr0(S) == IF S = {} THEN 0 ELSE CHOOSE m \in S : \A x \in S : x <= m

\* the number of seats plus one
NextNumber_CountPlusOne(o) == Cardinality(SeatsOf(o)) + 1

\* next_number = max(numeric_labels, default=0) + 1
NextNumber(o) == MaxOr0(NumericLabels(o)) + 1

\* the lowest free slot
FreeSlot == CHOOSE w \in Slots : ~adding[w].active /\ \A v \in Slots : v < w => adding[v].active

\* get_object_or_404 and the SELECT of the existing labels
AddSeatRead(o) ==
    /\ Accept
    /\ nreq' = nreq + 1
    /\ IF o \notin DOMAIN orders
       THEN /\ response' = Resp("add_seat", "not_found", o, {})
            /\ UNCHANGED adding
       ELSE /\ adding' = [adding EXCEPT ![FreeSlot] =
                            [active |-> TRUE, order |-> o, label |-> StrOf(NextNumber(o))]]
            /\ UNCHANGED response
    /\ UNCHANGED <<tables, items, session, db, stafflog, nextOrderId, nextSeatId, nextSelId, txn, workers, budget>>

\* Seat.objects.create(order=order, label=auto_label)
AddSeatCreate(w) ==
    /\ adding[w].active
    /\ adding' = [adding EXCEPT ![w] = NoAdding]
    /\ LET o == adding[w].order
           auto_label == adding[w].label
       IN
       IF o \in DOMAIN orders /\ UniqueTogether(o, auto_label)
       THEN /\ seats' = seats @@ (nextSeatId :>
                            [order |-> o, label |-> auto_label, assigned_to |-> 0])
            /\ nextSeatId' = nextSeatId + 1
            /\ response' = Resp("add_seat", "ok", o, {auto_label})
       ELSE \* IntegrityError: the label is taken, or the order is gone
            /\ response' = ServerError("add_seat", o, "IntegrityError")
            /\ UNCHANGED <<seats, nextSeatId>>
    /\ UNCHANGED <<tables, items, session, orders, selections, stafflog, nextOrderId, nextSelId, txn,
                   workers, budget, nreq>>

RemoveSeat(sid) ==
    /\ Accept
    /\ nreq' = nreq + 1
    /\ IF sid \notin DOMAIN seats
       THEN /\ response' = Resp("remove_seat", "not_found", sid, {})
            /\ UNCHANGED <<seats, selections>>
       ELSE /\ seats' = Without(seats, {sid})
            /\ selections' = Without(selections, SelectionsOf(sid))
            /\ response' = Resp("remove_seat", "ok", sid, {seats[sid].label})
    /\ UNCHANGED <<tables, items, session, orders, stafflog, nextOrderId, nextSeatId, nextSelId, txn, adding, workers, budget>>

(***************************************************************************)
(* add_selection / remove_selection / move_selection.                      *)
(***************************************************************************)
\* the rows SeatSelection.objects.get_or_create(seat=, item=) looks up
Matching(sid, item) ==
    {x \in DOMAIN selections : selections[x].seat = sid /\ selections[x].item = item}

\* the new notes written over the old ones
AppendNotes_Overwrite(old, notes) == notes

\* (selection.notes + "\n" + notes).strip()
AppendNotes(old, notes) == Strip(old \o <<"\n">> \o notes)

AddSelection(sid, item, modifier_ids, temperature_ids, raw_notes) ==
    /\ Accept
    /\ nreq' = nreq + 1
    /\ LET notes == Strip(raw_notes)
           mods == modifier_ids \cap Modifiers
           temps == temperature_ids \cap Temperatures
       IN
       IF sid \notin DOMAIN seats \/ item \notin items
       THEN /\ response' = Resp("add_selection", "not_found", sid, {})
            /\ UNCHANGED <<selections, nextSelId>>
       ELSE IF Matching(sid, item) = {}
       THEN /\ selections' = selections @@ (nextSelId :>
                                [seat |-> sid, item |-> item, notes |-> notes,
                                 modifiers |-> mods, temperatures |-> temps])
            /\ nextSelId' = nextSelId + 1
            /\ response' = Resp("add_selection", "ok", sid, {})
       ELSE IF Cardinality(Matching(sid, item)) > 1
       THEN \* get() inside get_or_create raises MultipleObjectsReturned
            /\ response' = ServerError("add_selection", sid, "MultipleObjectsReturned")
            /\ UNCHANGED <<selections, nextSelId>>
       ELSE LET x == CHOOSE y \in Matching(sid, item) : TRUE IN
            /\ selections' = [selections EXCEPT
                    ![x].notes = IF Len(notes) > 0 THEN AppendNotes(@, notes) ELSE @,
                    ![x].modifiers = @ \cup mods,
                    ![x].temperatures = @ \cup temps]
            /\ nextSelId' = nextSelId
            /\ response' = Resp("add_selection", "ok", sid, {})
    /\ UNCHANGED <<tables, items, session, orders, seats, stafflog, nextOrderId, nextSeatId, txn, adding, workers, budget>>

RemoveSelection(x) ==
    /\ Accept
    /\ nreq' = nreq + 1
    /\ IF x \notin DOMAIN selections
       THEN /\ response' = Resp("remove_selection", "not_found", x, {})
            /\ UNCHANGED selections
       ELSE /\ selections' = Without(selections, {x})
            /\ response' = Resp("remove_selection", "ok", x, {})
    /\ UNCHANGED <<tables, items, session, orders, seats, stafflog, nextOrderId, nextSeatId,
                   nextSelId, txn, adding, workers, budget>>

\* a guard that lets a request without ids through
MissingId_Never(x, target) == FALSE

\* not sel_id or not target_seat_id: an id of 0 stands for a POST without that field
MissingId(x, target) == x = 0 \/ target = 0

\* a move that saves a blank form of the selection on the target seat
Moved_Blank(x, target) ==
    [selections EXCEPT ![x].seat = target, ![x].notes = <<>>, ![x].modifiers = {}]

\* selection.seat = target_seat; selection.save()
Moved(x, target) == [selections EXCEPT ![x].seat = target]

MoveSelection(x, target) ==
    /\ Accept
    /\ nreq' = nreq + 1
    /\ IF MissingId(x, target)
       THEN /\ response' = Resp("move_selection", "error400", x, {})
            /\ UNCHANGED <<selections, stafflog>>
       ELSE IF x \notin DOMAIN selections \/ target \notin DOMAIN seats
       THEN /\ response' = Resp("move_selection", "not_found", x, {})
            /\ UNCHANGED <<selections, stafflog>>
       ELSE /\ selections' = Moved(x, target)
            /\ stafflog' = IF session # 0
                           THEN Logged(LogEntry(session, "moved selection", x,
                                             orders[seats[target].order].table))
                           ELSE stafflog
            /\ response' = Resp("move_selection", "ok", x, {})
    /\ UNCHANGED <<tables, items, session, orders, seats, nextOrderId, nextSeatId, nextSelId, txn, adding, workers, budget>>

(***************************************************************************)
(* table_detail: _build_table_context.                                     *)
(***************************************************************************)
\* the characters of seat labels, in code-point order
CodePoints == <<"-", "0", "1", "2", "3", "4", "5", "6", "7", "8", "9", "A", "B">>

\* ord(c), up to the offset
Ord(c) == CHOOSE i \in 1..Len(CodePoints) : CodePoints[i] = c

\* a < b on str
RECURSIVE StrLess(_, _)
StrLess(a, b) ==
    IF Len(b) = 0 THEN FALSE
    ELSE IF Len(a) = 0 THEN TRUE
    ELSE IF a[1] = b[1] THEN StrLess(Tail(a), Tail(b))
    ELSE Ord(a[1]) < Ord(b[1])

\* request.GET of table_detail
Query(my_start, my_end) == [my_start |-> my_start, my_end |-> my_end]

\* my_start and my_end and my_start.isdigit() and my_end.isdigit()
FilterActive(get) ==
    /\ get.my_start # None /\ get.my_end # None
    /\ IsDigit(get.my_start) /\ IsDigit(get.my_end)

\* the bounds after the sanity-swap
FilterLow(get) ==
    IF IntOfDigits(get.my_start) > IntOfDigits(get.my_end)
    THEN IntOfDigits(get.my_end) ELSE IntOfDigits(get.my_start)

FilterHigh(get) ==
    IF IntOfDigits(get.my_start) > IntOfDigits(get.my_end)
    THEN IntOfDigits(get.my_start) ELSE IntOfDigits(get.my_end)

\* a filter that forgets to test the label
InSlice_AnyLabel(label, low, high) ==
    ~IsDigit(label) \/ (low <= IntOfDigits(label) /\ IntOfDigits(label) <= high)

\* s.label.isdigit() and my_start <= int(s.label) <= my_end
InSlice(label, low, high) ==
    IsDigit(label) /\ low <= IntOfDigits(label) /\ IntOfDigits(label) <= high

\* list(order.seats ...): Seat.Meta.ordering = ["order", "label"]
RECURSIVE ByLabel(_)
ByLabel(labels) ==
    IF labels = {} THEN <<>>
    ELSE LET m == CHOOSE x \in labels : \A y \in labels : ~StrLess(y, x)
         IN <<m>> \o ByLabel(labels \ {m})

\* a key that compares every label as text
SeatSortKey_Text(label) == [class |-> 1, number |-> 0, text |-> label]

\* _seat_sort_key: (0, int(label)) if label.isdigit() else (1, label)
SeatSortKey(label) ==
    IF IsDigit(label) THEN [class |-> 0, number |-> IntOfDigits(label), text |-> <<>>]
    ELSE [class |-> 1, number |-> 0, text |-> label]

\* the order of the key tuples
KeyLess(k, l) ==
    \/ k.class < l.class
    \/ k.class = l.class /\ k.number < l.number
    \/ k.class = l.class /\ k.number = l.number /\ StrLess(k.text, l.text)

\* q without its i-th element
Drop(q, i) == SubSeq(q, 1, i - 1) \o SubSeq(q, i + 1, Len(q))

\* list.sort(key=_seat_sort_key): stable, so among equal keys the earlier stays first
RECURSIVE SortedByKey(_)
SortedByKey(q) ==
    IF Len(q) = 0 THEN <<>>
    ELSE LET i == CHOOSE i \in 1..Len(q) :
                    /\ \A j \in 1..Len(q) : ~KeyLess(SeatSortKey(q[j]), SeatSortKey(q[i]))
                    /\ \A j \in 1..(i - 1) : KeyLess(SeatSortKey(q[i]), SeatSortKey(q[j]))
         IN <<q[i]>> \o SortedByKey(Drop(q, i))

\* visible_seats before the sort
VisibleSeats(o, get) ==
    LET all_seats == ByLabel({seats[s].label : s \in SeatsOf(o)}) IN
    IF FilterActive(get)
    THEN SelectSeq(all_seats, LAMBDA l : InSlice(l, FilterLow(get), FilterHigh(get)))
    ELSE all_seats

\* GET table/<id>/: the page with the seats of the table's open order
TableDetail(t, get) ==
    /\ InFlight < workers
    /\ IF t \notin tables
       THEN response' = Resp("table_detail", "not_found", t, {})
       ELSE LET order == FirstOpenOrder(t) IN
            response' = [Resp("table_detail", "ok", t, {}) EXCEPT
                            !.seats = IF order = 0 THEN <<>>
                                      ELSE SortedByKey(VisibleSeats(order, get))]
    /\ UNCHANGED <<tables, items, session, db, stafflog, nextOrderId, nextSeatId, nextSelId, txn,
                   adding, workers, budget, nreq>>

(***************************************************************************)
(* The same views when StaffLog.objects.create raises.                     *)
(***************************************************************************)
\* start_order: the block has committed when the audit entry is written
StartOrderLogFails ==
    /\ txn.active
    /\ orders' = orders @@ (txn.order :>
                    [table |-> txn.table, opened_by_staff |-> txn.staff,
                     printed |-> FALSE])
    /\ seats' = seats @@ BulkRows(txn.order, txn.labels)
    /\ nextSeatId' = nextSeatId + Len(txn.labels)
    /\ response' = ServerError("start_order", txn.order, "DatabaseError")
    /\ txn' = NoTxn
    /\ UNCHANGED <<tables, items, session, selections, stafflog, nextOrderId, nextSelId,
                   nreq, adding, workers, budget>>

\* close_order: the audit entry is written before order.delete()
CloseOrderLogFails(o) ==
    /\ Accept
    /\ nreq' = nreq + 1
    /\ o \in DOMAIN orders
    /\ session # 0
    /\ response' = ServerError("close_order", o, "DatabaseError")
    /\ UNCHANGED <<tables, items, session, db, stafflog, nextOrderId, nextSeatId,
                   nextSelId, txn, adding, workers, budget>>

\* move_selection: the audit entry is written after selection.save()
MoveSelectionLogFails(x, target) ==
    /\ Accept
    /\ nreq' = nreq + 1
    /\ x \in DOMAIN selections /\ target \in DOMAIN seats
    /\ session # 0
    /\ selections' = Moved(x, target)
    /\ response' = ServerError("move_selection", x, "DatabaseError")
    /\ UNCHANGED <<tables, items, session, orders, seats, stafflog, nextOrderId,
                   nextSeatId, nextSelId, txn, adding, workers, budget>>

(***************************************************************************)
(* Admin site (orders/admin.py).                                           *)
(***************************************************************************)
\* OrderAdmin.mark_as_closed on one selected order
MarkAsClosed(o) ==
    /\ Accept
    /\ nreq' = nreq + 1
    /\ o \in DOMAIN orders
    /\ orders' = [orders EXCEPT ![o].printed = TRUE]
    /\ response' = Resp("mark_as_closed", "ok", o, {})
    /\ UNCHANGED <<tables, items, session, seats, selections, stafflog, nextOrderId, nextSeatId,
                   nextSelId, txn, adding, workers, budget>>

\* SeatInline of OrderAdmin: a seat typed in with its label; the admin form runs
\* validate_unique and refuses a label the order already has
AdminSaveSeat(o, label) ==
    /\ Accept
    /\ nreq' = nreq + 1
    /\ o \in DOMAIN orders
    /\ IF UniqueTogether(o, label)
       THEN /\ seats' = seats @@ (nextSeatId :>
                            [order |-> o, label |-> label, assigned_to |-> 0])
            /\ nextSeatId' = nextSeatId + 1
            /\ response' = Resp("admin_seat", "ok", o, {label})
       ELSE /\ response' = Resp("admin_seat", "invalid", o, {label})
            /\ UNCHANGED <<seats, nextSeatId>>
    /\ UNCHANGED <<tables, items, session, orders, selections, stafflog, nextOrderId, nextSelId,
                   txn, adding, workers, budget>>

\* a delete that does not look for orders
ProtectsTable_Never(t) == FALSE

\* Order.table has on_delete=PROTECT: an order of the table forbids its delete
ProtectsTable(t) == \E o \in DOMAIN orders : orders[o].table = t

\* SeatSelection.item has on_delete=PROTECT
ProtectsItem(i) == \E x \in DOMAIN selections : selections[x].item = i

\* TableAdmin: the delete of one table
AdminDeleteTable(t) ==
    /\ Accept
    /\ nreq' = nreq + 1
    /\ t \in tables
    /\ IF ProtectsTable(t)
       THEN /\ response' = Resp("admin_delete_table", "protected", t, {})
            /\ UNCHANGED tables
       ELSE /\ tables' = tables \ {t}
            /\ response' = Resp("admin_delete_table", "ok", t, {})
    /\ UNCHANGED <<items, session, db, stafflog, nextOrderId, nextSeatId, nextSelId, txn,
                   adding, workers, budget>>

\* MenuItemAdmin: the delete of one menu item
AdminDeleteItem(i) ==
    /\ Accept
    /\ nreq' = nreq + 1
    /\ i \in items
    /\ IF ProtectsItem(i)
       THEN /\ response' = Resp("admin_delete_item", "protected", i, {})
            /\ UNCHANGED items
       ELSE /\ items' = items \ {i}
            /\ response' = Resp("admin_delete_item", "ok", i, {})
    /\ UNCHANGED <<tables, session, db, stafflog, nextOrderId, nextSeatId, nextSelId, txn,
                   adding, workers, budget>>

(***************************************************************************)
(* Requests the tablets send.                                              *)
(***************************************************************************)
Post(my_start, my_end, seat_count, my_seat_start, my_seat_end) ==
    [my_start |-> my_start, my_end |-> my_end, seat_count |-> seat_count,
     my_seat_start |-> my_seat_start, my_seat_end |-> my_seat_end]

\* the codes typed at the login screen: a member's, and one nobody has
LoginCodes == {StaffCode(1), StrOf(0)}

\* start_order POSTs: seat_count alone, the view's range fields (a range, a range
\* reaching below 1, an empty range, a malformed bound), the form's range fields,
\* the default, a malformed seat_count
StartPosts ==
    { NoPost,
      Post(None, None, StrOf(4), None, None),
      Post(StrOf(2), StrOf(3), None, None, None),
      Post(StrOf(-1), StrOf(1), StrOf(3), None, None),
      Post(StrOf(3), StrOf(2), None, None, None),
      Post(<<"x">>, StrOf(2), StrOf(2), None, None),
      Post(None, None, <<"x">>, None, None),
      Post(None, None, StrOf(3), StrOf(2), StrOf(3)) }

\* join_order POSTs: the default, seat_count alone, a range clear of 1..4, a range
\* reaching into 1..4, start > end, one bound only
JoinPosts ==
    { NoPost,
      Post(None, None, StrOf(3), None, None),
      Post(None, None, None, StrOf(5), StrOf(6)),
      Post(None, None, None, StrOf(3), StrOf(6)),
      Post(None, None, None, StrOf(3), StrOf(2)),
      Post(None, None, None, StrOf(2), None) }

\* primary keys a request may name: the rows there are or were, and one not yet used
OrderKeys == 1..nextOrderId

SeatKeys == 1..nextSeatId

SelectionKeys == 1..nextSelId

\* the tables, and an id with no row
TableKeys == Tables \cup {0}

\* add_selection POSTs: [item_id, modifier_ids, temperature_ids, notes]
SelectionPost(item, mods, temps, notes) ==
    [item |-> item, modifier_ids |-> mods, temperature_ids |-> temps, notes |-> notes]

\* no tags and no notes, a note with tags, a note with a trailing blank, a second
\* item, a modifier id that has no row, an item id that has no row
SelectionPosts ==
    { SelectionPost(1, {}, {}, <<>>),
      SelectionPost(1, {1}, {1}, <<"a">>),
      SelectionPost(1, {2}, {}, <<"b", " ">>),
      SelectionPost(2, {1, 2}, {}, <<"a">>),
      SelectionPost(2, {3}, {}, <<>>),
      SelectionPost(0, {}, {}, <<>>) }

(***************************************************************************)
(* The system.                                                             *)
(***************************************************************************)
SessionViews ==
    \/ \E code \in LoginCodes : StaffLogin(code)
    \/ StaffLogout

OrderViews ==
    \/ \E t \in TableKeys, post \in StartPosts : StartOrderBegin(t, post)
    \/ StartOrderCommit
    \/ \E t \in TableKeys, post \in JoinPosts : JoinOrder(t, post)
    \/ \E o \in OrderKeys : CloseOrder(o)
    \/ \E o \in OrderKeys : MarkAsClosed(o)

SeatViews ==
    \/ \E o \in OrderKeys : AddSeatRead(o)
    \/ \E w \in Slots : AddSeatCreate(w)
    \/ \E sid \in SeatKeys : RemoveSeat(sid)

SelectionViews ==
    \/ \E sid \in SeatKeys, post \in SelectionPosts :
            AddSelection(sid, post.item, post.modifier_ids, post.temperature_ids,
                         post.notes)
    \/ \E x \in SelectionKeys : RemoveSelection(x)
    \/ \E x \in SelectionKeys \cup {0}, target \in SeatKeys \cup {0} :
            MoveSelection(x, target)

\* orders and seats, one request at a time, on a database that never fails
Next == SessionViews \/ OrderViews \/ SeatViews

Spec == Init /\ [][Next]_vars

\* the same with two workers and a database whose bulk INSERT may fail
NextConcurrent == Next \/ StartOrderRollback

SpecConcurrent == InitConcurrent /\ [][NextConcurrent]_vars

\* selections on the seats of small orders, one request at a time
SmallStartPosts == {Post(None, None, StrOf(2), None, None)}

NextSelections ==
    \/ SessionViews
    \/ \E t \in Tables, post \in SmallStartPosts : StartOrderBegin(t, post)
    \/ StartOrderCommit
    \/ \E o \in OrderKeys : CloseOrder(o)
    \/ \E sid \in SeatKeys : RemoveSeat(sid)
    \/ SelectionViews

SpecSelections == InitSelections /\ [][NextSelections]_vars

\* the login screen with every kind of code: a member's, one two members share,
\* a member's between blanks, one nobody has, none
AllLoginCodes ==
    {StaffCode(1), StaffCode(2), <<" ">> \o StaffCode(1) \o <<" ">>, StrOf(0), <<>>}

\* the rooms, and an id with no row
RoomKeys == Rooms \cup {0}

GuardedViews ==
    \/ RoomDashboard
    \/ \E room \in RoomKeys : RoomTables(room)
    \/ \E room \in RoomKeys : PrintRoomTicket(room)
    \/ \E o \in OrderKeys : PrintTicket(o)

NextSessions ==
    \/ \E code \in AllLoginCodes : StaffLogin(code)
    \/ StaffLogout
    \/ \E t \in Tables, post \in SmallStartPosts : StartOrderBegin(t, post)
    \/ StartOrderCommit
    \/ GuardedViews

SpecSessions == Init /\ [][NextSessions]_vars

\* labels typed into the admin: a two-digit number, letters, a number with a
\* leading zero
AdminLabels == {StrOf(10), <<"A">>, <<"B">>, <<"0", "1">>}

\* start_order POSTs of the display: two seats, and the range -1..1
DisplayStartPosts ==
    {Post(None, None, StrOf(2), None, None), Post(StrOf(-1), StrOf(1), None, None, None)}

\* query strings of table_detail: none, a range, the range reversed, one bound
\* only, a bound that is no number
Queries ==
    { Query(None, None),
      Query(StrOf(1), StrOf(2)),
      Query(StrOf(2), StrOf(1)),
      Query(StrOf(2), None),
      Query(<<"A">>, StrOf(2)) }

\* the tablet page of the orders, with seats started by the staff and seats typed
\* into the admin
NextDisplay ==
    \/ SessionViews
    \/ \E t \in Tables, post \in DisplayStartPosts : StartOrderBegin(t, post)
    \/ StartOrderCommit
    \/ \E o \in OrderKeys, label \in AdminLabels : AdminSaveSeat(o, label)
    \/ \E t \in TableKeys, get \in Queries : TableDetail(t, get)

SpecDisplay == Init /\ [][NextDisplay]_vars

\* orders with selections, and an admin who deletes tables and menu items
NextAdmin ==
    \/ SessionViews
    \/ \E t \in TableKeys, post \in SmallStartPosts : StartOrderBegin(t, post)
    \/ StartOrderCommit
    \/ \E o \in OrderKeys : CloseOrder(o)
    \/ \E sid \in SeatKeys : RemoveSeat(sid)
    \/ \E sid \in SeatKeys, post \in SelectionPosts :
            AddSelection(sid, post.item, post.modifier_ids, post.temperature_ids,
                         post.notes)
    \/ \E x \in SelectionKeys : RemoveSelection(x)
    \/ \E t \in Tables : AdminDeleteTable(t)
    \/ \E i \in MenuItems : AdminDeleteItem(i)

SpecAdmin == Init /\ [][NextAdmin]_vars

\* every page and operation of the staff, one request at a time
NextAudit ==
    \/ SessionViews
    \/ \E t \in Tables, post \in SmallStartPosts : StartOrderBegin(t, post)
    \/ StartOrderCommit
    \/ \E t \in Tables, post \in JoinPosts : JoinOrder(t, post)
    \/ \E o \in OrderKeys : CloseOrder(o)
    \/ SeatViews
    \/ SelectionViews
    \/ GuardedViews

SpecAudit == Init /\ [][NextAudit]_vars

\* orders and moves on a database whose INSERTs may fail
NextFailures ==
    \/ SessionViews
    \/ \E t \in Tables, post \in SmallStartPosts : StartOrderBegin(t, post)
    \/ StartOrderCommit
    \/ StartOrderRollback
    \/ StartOrderLogFails
    \/ \E o \in OrderKeys : CloseOrder(o)
    \/ \E o \in OrderKeys : CloseOrderLogFails(o)
    \/ \E sid \in SeatKeys, post \in SelectionPosts :
            AddSelection(sid, post.item, post.modifier_ids, post.temperature_ids,
                         post.notes)
    \/ \E x \in SelectionKeys, target \in SeatKeys : MoveSelection(x, target)
    \/ \E x \in SelectionKeys, target \in SeatKeys : MoveSelectionLogFails(x, target)

SpecFailures == Init /\ [][NextFailures]_vars

\* a party of one
SingleSeatPosts == {Post(None, None, StrOf(1), None, None)}

\* orders of one seat each, and one dish that is ordered and moved between them
NextMoves ==
    \/ StaffLogin(StaffCode(1))
    \/ \E t \in Tables, post \in SingleSeatPosts : StartOrderBegin(t, post)
    \/ StartOrderCommit
    \/ \E sid \in SeatKeys : AddSelection(sid, 1, {}, {}, <<>>)
    \/ \E x \in SelectionKeys, target \in SeatKeys : MoveSelection(x, target)
    \/ \E o \in OrderKeys : CloseOrder(o)

SpecMoves == InitMoves /\ [][NextMoves]_vars

(***************************************************************************)
(* Properties.                                                             *)
(***************************************************************************)
\* the views the specification calls write operations
WriteOps == {"start_order", "join_order", "close_order", "add_seat", "remove_seat",
             "add_selection", "remove_selection", "move_selection"}

\* C1: a request to a write view that arrives without a staff session changes no
\* Order, Seat or SeatSelection row.
C1_NoSessionNoWrite ==
    [][(session = 0 /\ nreq' = nreq + 1 /\ response'.op \in WriteOps) => db' = db]_vars

\* C2: no two seats of one order carry the same label.
C2_LabelsUnique ==
    \A s1 \in DOMAIN seats, s2 \in DOMAIN seats :
        (s1 # s2 /\ seats[s1].order = seats[s2].order) => seats[s1].label # seats[s2].label

\* C2 happens: an add_seat in flight computed a label that another request has
\* inserted meanwhile, so only the constraint stands between it and a duplicate.
C2_Witness ==
    \E w \in Slots :
        /\ adding[w].active
        /\ adding[w].order \in DOMAIN orders
        /\ ~UniqueTogether(adding[w].order, adding[w].label)

\* the rows of f that were there before the step are there after it, unchanged
Kept(f, g) == \A i \in DOMAIN f : i \in DOMAIN g /\ g[i] = f[i]

\* the seats a step inserted
NewSeats == DOMAIN seats' \ DOMAIN seats

\* an explicit range in the fields of StartOrderForm
FormHasRange(post) == ~FieldEmpty(post.my_seat_start) /\ ~FieldEmpty(post.my_seat_end)

FormRange(post) == Range(PyInt(post.my_seat_start), PyInt(post.my_seat_end))

\* seat_count, 12 when the form carries none
FormSeatCount(post) ==
    IF FieldEmpty(post.seat_count) THEN DefaultSeatCount ELSE PyInt(post.seat_count)

\* a join_order request with a valid form on a table that has an open order
JoinsOpenOrder(t, post) == JoinOrder(t, post) /\ FirstOpenOrder(t) # 0 /\ FormValid(post)

\* C3: join_order with an explicit range that reaches into the open order's numeric
\* labels changes nothing and answers with a conflict naming exactly the labels in
\* both.
C3_JoinOverlapRejected ==
    [][\A t \in tables, post \in JoinPosts :
        LET overlap == NumericLabels(FirstOpenOrder(t)) \cap FormRange(post) IN
        (JoinsOpenOrder(t, post) /\ FormHasRange(post) /\ overlap # {}) =>
            /\ db' = db
            /\ response'.status = "conflict"
            /\ response'.info = {StrOf(n) : n \in overlap}]_vars

\* C4: join_order with an explicit range clear of the open order's numeric labels
\* succeeds and adds one seat per integer of the range to that order, labelled
\* with its decimal string, and keeps every existing row.
C4_JoinRangeAddsSeats ==
    [][\A t \in tables, post \in JoinPosts :
        LET o == FirstOpenOrder(t) IN
        (JoinsOpenOrder(t, post) /\ FormHasRange(post)
            /\ NumericLabels(o) \cap FormRange(post) = {}) =>
            /\ response'.status = "ok"
            /\ orders' = orders /\ selections' = selections /\ Kept(seats, seats')
            /\ \A s \in NewSeats : seats'[s].order = o
            /\ {seats'[s].label : s \in NewSeats} = {StrOf(n) : n \in FormRange(post)}
            /\ Cardinality(NewSeats) = Cardinality(FormRange(post))]_vars

\* C8: join_order without a range and with seat_count n never fails on a label:
\* it adds the labels of 1..n the open order lacks and keeps every existing row.
C8_JoinCountFillsGaps ==
    [][\A t \in tables, post \in JoinPosts :
        LET o == FirstOpenOrder(t)
            wanted == Range(1, FormSeatCount(post)) \ NumericLabels(o)
        IN
        (JoinsOpenOrder(t, post) /\ ~FormHasRange(post)) =>
            /\ response'.status = "ok"
            /\ orders' = orders /\ selections' = selections /\ Kept(seats, seats')
            /\ \A s \in NewSeats : seats'[s].order = o
            /\ {seats'[s].label : s \in NewSeats} = {StrOf(n) : n \in wanted}
            /\ Cardinality(NewSeats) = Cardinality(wanted)]_vars

\* the labels start_order is to create for a POST: the range of the form's fields
\* my_seat_start and my_seat_end when both are supplied, else 1..seat_count
ClaimedStartNumbers(post) ==
    IF post.my_seat_start # None /\ post.my_seat_end # None
    THEN Range(PyInt(post.my_seat_start), PyInt(post.my_seat_end))
    ELSE Range(1, PostSeatCount(post))

\* the step in which start_order's block commits
StartCommits == txn.active /\ ~txn'.active /\ response'.status = "ok"

\* the step in which start_order's block rolls back
StartRollsBack == txn.active /\ ~txn'.active /\ response'.status = "error500"

\* C5: the Order of start_order and its seats become visible in one step or not
\* at all: while the block is open the Order is not in the database, the step
\* that shows the Order shows its whole batch of seats, and a failed batch leaves
\* no Order behind.
C5_StartOrderAtomic ==
    [][/\ txn.active => txn.order \notin DOMAIN orders
       /\ txn'.active => txn'.order \notin DOMAIN orders'
       /\ \A o \in DOMAIN orders' \ DOMAIN orders :
            /\ StartCommits /\ o = txn.order
            /\ {seats'[s].label : s \in {x \in NewSeats : seats'[x].order = o}}
                 = {txn.labels[k].label : k \in 1..Len(txn.labels)}
            /\ Cardinality({x \in NewSeats : seats'[x].order = o}) = Len(txn.labels)
       /\ StartRollsBack => (db' = db /\ txn.order \notin DOMAIN orders')]_vars

\* C5 happens: the batch of the first start_order failed, and the database holds
\* neither the Order, whose primary key is spent, nor a seat.
C5_Witness ==
    /\ response.op = "start_order" /\ response.error = "DatabaseError"
    /\ nextOrderId = 2 /\ orders = NoRows /\ seats = NoRows

\* C6: close_order on an existing order removes the order, every seat of it and
\* every selection on those seats, and the table of the order is still there.
C6_CloseOrderCascades ==
    [][\A o \in DOMAIN orders :
        CloseOrder(o) =>
            /\ o \notin DOMAIN orders'
            /\ \A s \in DOMAIN seats' : seats'[s].order # o
            /\ \A s \in SeatsOf(o) : s \notin DOMAIN seats'
            /\ \A x \in DOMAIN selections :
                    selections[x].seat \in SeatsOf(o) => x \notin DOMAIN selections'
            /\ orders[o].table \in tables']_vars

\* C6 happens: the only order ever opened was closed after a selection had been put
\* on one of its seats, and nothing of it is left.
C6_Witness ==
    /\ response.op = "close_order" /\ response.status = "ok"
    /\ nextOrderId = 2 /\ nextSeatId > 1 /\ nextSelId = 2 /\ nreq = 3
    /\ orders = NoRows /\ seats = NoRows /\ selections = NoRows

\* C7: a start_order that succeeds on a POST of the fields my_seat_start,
\* my_seat_end and seat_count creates one Order whose seats are the labels
\* start..end when my_seat_start and my_seat_end are both supplied, else the labels
\* 1..seat_count (12 without seat_count), all unassigned, and no other seat.
C7_StartOrderSeats ==
    [][(StartCommits /\ txn.post.my_start = None /\ txn.post.my_end = None) =>
        /\ DOMAIN orders' \ DOMAIN orders = {txn.order}
        /\ \A s \in NewSeats : seats'[s].order = txn.order /\ seats'[s].assigned_to = 0
        /\ {seats'[s].label : s \in NewSeats}
             = {StrOf(n) : n \in ClaimedStartNumbers(txn.post)}
        /\ Cardinality(NewSeats) = Cardinality(ClaimedStartNumbers(txn.post))]_vars

\* C9: join_order on a table with no order that has printed = False answers
\* "no order" and changes no row.
C9_JoinWithoutOrder ==
    [][\A t \in tables, post \in JoinPosts :
        (JoinOrder(t, post)
            /\ ~\E o \in DOMAIN orders : orders[o].table = t /\ ~orders[o].printed) =>
            (response'.status = "no_order" /\ db' = db)]_vars

\* C9 happens: the table has an order, but it is marked printed, and join_order
\* answered "no order".
C9_Witness ==
    /\ response.op = "join_order" /\ response.status = "no_order"
    /\ \E o \in DOMAIN orders : orders[o].table = response.target /\ orders[o].printed

\* C10: add_seat inserts exactly one seat, unassigned, labelled with the decimal
\* string of one more than the largest numeric label of the order (0 if it has
\* none), whatever non-numeric labels there are, and keeps every existing row.
C10_AddSeatNextLabel ==
    [][\A w \in Slots :
        AddSeatCreate(w) =>
            LET o == adding[w].order
                nums == {IntOfDigits(seats[s].label) :
                            s \in {x \in SeatsOf(o) : IsDigit(seats[x].label)}}
            IN /\ Cardinality(NewSeats) = 1
               /\ Kept(seats, seats') /\ orders' = orders /\ selections' = selections
               /\ \A s \in NewSeats :
                    /\ seats'[s].order = o /\ seats'[s].assigned_to = 0
                    /\ \/ nums = {} /\ seats'[s].label = StrOf(1)
                       \/ \E m \in nums :
                            /\ \A n \in nums : n <= m
                            /\ seats'[s].label = StrOf(m + 1)]_vars

\* C10 happens: the order holds the non-numeric label "-1" and the numeric labels
\* 0 and 1, and add_seat made seat "2".
C10_Witness ==
    /\ response.op = "add_seat" /\ response.status = "ok" /\ response.info = {StrOf(2)}
    /\ \E s \in DOMAIN seats :
        /\ seats[s].order = response.target
        /\ seats[s].label = StrOf(-1)

\* an add_selection request for a seat and an item that already share a selection,
\* naming tags that exist
AddsToExisting(sid, post) ==
    /\ AddSelection(sid, post.item, post.modifier_ids, post.temperature_ids, post.notes)
    /\ Cardinality(Matching(sid, post.item)) = 1
    /\ post.modifier_ids \subseteq Modifiers
    /\ post.temperature_ids \subseteq Temperatures

\* the step leaves the set of selections as it is, and every selection but x untouched
OnlySelectionChanged(x) ==
    /\ DOMAIN selections' = DOMAIN selections
    /\ \A y \in DOMAIN selections : y # x => selections'[y] = selections[y]
    /\ orders' = orders /\ seats' = seats

\* C11 as stated: add_selection for a (seat, item) that has a selection creates no
\* second one, keeps its seat and item, makes its notes the old notes, a newline
\* and the new notes whenever new notes are supplied, and makes its modifiers and
\* temperatures the union of the old and the supplied ones.
C11_NotesAfterNewline ==
    [][\A sid \in DOMAIN seats, post \in SelectionPosts :
        AddsToExisting(sid, post) =>
            LET x == CHOOSE y \in Matching(sid, post.item) : TRUE
                notes == Strip(post.notes)
            IN /\ OnlySelectionChanged(x)
               /\ selections'[x].seat = sid /\ selections'[x].item = post.item
               /\ selections'[x].notes =
                    IF Len(notes) = 0 THEN selections[x].notes
                    ELSE selections[x].notes \o <<"\n">> \o notes
               /\ selections'[x].modifiers = selections[x].modifiers \cup post.modifier_ids
               /\ selections'[x].temperatures
                    = selections[x].temperatures \cup post.temperature_ids]_vars

\* C11, amended: the same, except that new notes supplied to a selection whose
\* notes are empty become its notes with no newline before them.
C11_AddSelectionAccumulates ==
    [][\A sid \in DOMAIN seats, post \in SelectionPosts :
        AddsToExisting(sid, post) =>
            LET x == CHOOSE y \in Matching(sid, post.item) : TRUE
                notes == Strip(post.notes)
            IN /\ OnlySelectionChanged(x)
               /\ selections'[x].seat = sid /\ selections'[x].item = post.item
               /\ selections'[x].notes =
                    IF Len(notes) = 0 THEN selections[x].notes
                    ELSE IF Len(selections[x].notes) = 0 THEN notes
                    ELSE selections[x].notes \o <<"\n">> \o notes
               /\ selections'[x].modifiers = selections[x].modifiers \cup post.modifier_ids
               /\ selections'[x].temperatures
                    = selections[x].temperatures \cup post.temperature_ids]_vars

\* C11 happens: two add_selection requests for one seat and item, with notes "a"
\* and modifier 1, then notes "b" and modifier 2, left one selection with the
\* notes "a\nb" and both modifiers.
C11_Witness ==
    /\ nextSelId = 2
    /\ \E x \in DOMAIN selections :
        /\ selections[x].notes = <<"a", "\n", "b">>
        /\ selections[x].modifiers = {1, 2}
        /\ selections[x].temperatures = {1}

\* C12: move_selection of an existing selection to an existing seat makes that seat
\* the selection's seat and changes nothing else: its primary key, item, notes,
\* modifiers and temperatures, every other selection, every seat and every order
\* are as before.
C12_MoveChangesSeatOnly ==
    [][\A x \in DOMAIN selections, target \in DOMAIN seats :
        MoveSelection(x, target) =>
            /\ OnlySelectionChanged(x)
            /\ selections'[x].seat = target
            /\ selections'[x].item = selections[x].item
            /\ selections'[x].notes = selections[x].notes
            /\ selections'[x].modifiers = selections[x].modifiers
            /\ selections'[x].temperatures = selections[x].temperatures]_vars

\* C12 happens: a selection with notes was moved onto a seat that already had a
\* selection of the same item, which add_selection alone never produces.
C12_Witness ==
    /\ response.op = "move_selection" /\ response.status = "ok"
    /\ \E x \in DOMAIN selections, y \in DOMAIN selections :
        /\ x = response.target /\ x # y
        /\ selections[x].seat = selections[y].seat
        /\ selections[x].item = selections[y].item
        /\ Len(selections[x].notes) > 0

\* C13: remove_seat on a seat that exists deletes that seat and the selections on
\* it and leaves every other seat, every other selection and every order as they
\* were; remove_seat on an id that has no seat, such as one already removed,
\* answers not-found and changes nothing.
C13_RemoveSeatOnce ==
    [][\A sid \in SeatKeys :
        RemoveSeat(sid) =>
            IF sid \in DOMAIN seats
            THEN /\ DOMAIN seats' = DOMAIN seats \ {sid}
                 /\ \A s \in DOMAIN seats' : seats'[s] = seats[s]
                 /\ DOMAIN selections'
                        = {x \in DOMAIN selections : selections[x].seat # sid}
                 /\ \A x \in DOMAIN selections' : selections'[x] = selections[x]
                 /\ orders' = orders
            ELSE response'.status = "not_found" /\ db' = db]_vars

\* C13 happens: seat 1 of an order was removed, a second remove_seat on it was
\* answered not-found, and seat 2 still carries its selection.
C13_Witness ==
    /\ response.op = "remove_seat" /\ response.status = "not_found"
    /\ response.target = 1 /\ nextSeatId = 3
    /\ DOMAIN seats = {2}
    /\ \E x \in DOMAIN selections : selections[x].seat = 2

\* C14: a login attempt whose code, blanks around it aside, is no member's code
\* leaves the session as it was and is answered as invalid; any other attempt
\* binds the session to one member, and that member's code is the submitted one.
C14_LoginBindsMatch ==
    [][\A code \in AllLoginCodes :
        StaffLogin(code) =>
            LET match == {m \in StaffIds : StaffCode(m) = Strip(code)} IN
            IF match = {}
            THEN session' = session /\ response'.status = "invalid"
            ELSE /\ session' \in match
                 /\ response'.status = "ok" /\ response'.target = session'
                 /\ Cardinality(match) = 1 => match = {session'}]_vars

\* C14 happens: a login with the code members 2 and 3 share bound one of them, who
\* then opened an order.
C14_Witness ==
    /\ session \in {2, 3}
    /\ \E o \in DOMAIN orders : orders[o].opened_by_staff = session

\* the labels a rendered page shows
Shown(r) == {r.seats[i] : i \in 1..Len(r.seats)}

\* C15: on every rendered table page the numeric labels come first, in increasing
\* numeric order, and the non-numeric labels after them, in lexical order; the
\* labels "10", "2", "A", "1" are shown as "1", "2", "10", "A".
C15_SeatDisplayOrder ==
    /\ \A i \in 1..Len(response.seats), j \in 1..Len(response.seats) :
            i < j =>
                LET a == response.seats[i]
                    b == response.seats[j]
                IN \/ IsDigit(a) /\ ~IsDigit(b)
                   \/ IsDigit(a) /\ IsDigit(b) /\ IntOfDigits(a) <= IntOfDigits(b)
                   \/ ~IsDigit(a) /\ ~IsDigit(b) /\ StrLess(a, b)
    /\ Shown(response) = {StrOf(10), StrOf(2), <<"A">>, StrOf(1)} =>
            response.seats = <<StrOf(1), StrOf(2), StrOf(10), <<"A">>>>

\* C15 happens: the page of an order whose seats are "1", "2", "10" and "A".
C15_Witness ==
    /\ response.op = "table_detail"
    /\ response.seats = <<StrOf(1), StrOf(2), StrOf(10), <<"A">>>>

\* the labels of the seats of the open order of table t
OpenLabels(t) == {seats[s].label : s \in SeatsOf(FirstOpenOrder(t))}

\* a query with both bounds given as numbers
BothBounds(get) ==
    /\ get.my_start # None /\ get.my_end # None
    /\ IsDigit(get.my_start) /\ IsDigit(get.my_end)

\* C16 as stated: with the bounds start and end in the query, the page shows
\* exactly the seats of the open order whose label is numeric with
\* start <= label <= end; with no bounds in the query it shows every seat.
C16_VisibleInRange ==
    [][\A t \in tables, get \in Queries :
        (TableDetail(t, get) /\ FirstOpenOrder(t) # 0) =>
            /\ Len(response'.seats) = Cardinality(Shown(response'))
            /\ BothBounds(get) =>
                    Shown(response') =
                        {l \in OpenLabels(t) :
                            /\ IsDigit(l)
                            /\ IntOfDigits(get.my_start) <= IntOfDigits(l)
                            /\ IntOfDigits(l) <= IntOfDigits(get.my_end)}
            /\ (get.my_start = None /\ get.my_end = None) =>
                    Shown(response') = OpenLabels(t)]_vars

\* C16, amended: the same, with the range taken from the smaller of the two bounds
\* to the larger.
C16_VisibleSeats ==
    [][\A t \in tables, get \in Queries :
        (TableDetail(t, get) /\ FirstOpenOrder(t) # 0) =>
            /\ Len(response'.seats) = Cardinality(Shown(response'))
            /\ BothBounds(get) =>
                    Shown(response') =
                        {l \in OpenLabels(t) :
                            /\ IsDigit(l)
                            /\ \/ /\ IntOfDigits(get.my_start) <= IntOfDigits(l)
                                  /\ IntOfDigits(l) <= IntOfDigits(get.my_end)
                               \/ /\ IntOfDigits(get.my_end) <= IntOfDigits(l)
                                  /\ IntOfDigits(l) <= IntOfDigits(get.my_start)}
            /\ (get.my_start = None /\ get.my_end = None) =>
                    Shown(response') = OpenLabels(t)]_vars

\* C16 happens: the page of an order that has the seats "10" and "A" besides "1"
\* and "2" shows "1" and "2" only.
C16_Witness ==
    /\ response.op = "table_detail" /\ response.status = "ok"
    /\ response.seats = <<StrOf(1), StrOf(2)>>
    /\ response.target \in tables
    /\ {StrOf(10), <<"A">>} \subseteq OpenLabels(response.target)

\* a seat range that is malformed or contradicts itself: one bound without the
\* other, a bound that is no integer, start > end, or end > seat_count
Contradictory(start, end, count) ==
    \/ FieldEmpty(start) # FieldEmpty(end)
    \/ ~FieldEmpty(start) /\ ~PyIntOk(start)
    \/ ~FieldEmpty(end) /\ ~PyIntOk(end)
    \/ /\ ~FieldEmpty(start) /\ ~FieldEmpty(end) /\ PyIntOk(start) /\ PyIntOk(end)
       /\ PyInt(start) > PyInt(end)
    \/ /\ ~FieldEmpty(end) /\ ~FieldEmpty(count) /\ PyIntOk(end) /\ PyIntOk(count)
       /\ PyInt(end) > PyInt(count)

\* the range of a POST, under the field names of the view or of the form
BadRange(post) ==
    \/ Contradictory(post.my_start, post.my_end, post.seat_count)
    \/ Contradictory(post.my_seat_start, post.my_seat_end, post.seat_count)

\* C17: no start_order whose seat range is malformed or contradictory creates an
\* Order, and a join_order with such a range changes no row and ends in a message
\* to the user.
C17_BadRangeRejected ==
    [][/\ BadRange(txn.post) => ~StartCommits
       /\ \A t \in tables, post \in JoinPosts :
            (JoinOrder(t, post) /\ BadRange(post)) =>
                (db' = db /\ response'.status \in {"invalid", "no_order"})]_vars

\* C18: an add_selection request that names a seat, a menu item, a modifier or a
\* temperature without a row is answered not-found and changes no selection.
C18_AddSelectionNotFound ==
    [][\A sid \in SeatKeys, post \in SelectionPosts :
        (/\ AddSelection(sid, post.item, post.modifier_ids, post.temperature_ids,
                         post.notes)
         /\ \/ sid \notin DOMAIN seats
            \/ post.item \notin MenuItems
            \/ ~(post.modifier_ids \subseteq Modifiers)
            \/ ~(post.temperature_ids \subseteq Temperatures)) =>
            (response'.status = "not_found" /\ selections' = selections)]_vars

C20_OneOpenOrderPerTable ==
    \A t \in tables : Cardinality(OpenOrders(t)) <= 1

\* every foreign key of the order tables names a row that is there
RefIntegrity ==
    /\ \A x \in DOMAIN selections :
            selections[x].seat \in DOMAIN seats /\ selections[x].item \in items
    /\ \A s \in DOMAIN seats : seats[s].order \in DOMAIN orders
    /\ \A o \in DOMAIN orders : orders[o].table \in tables

\* C21: before and after every step each SeatSelection names an existing Seat and
\* MenuItem, each Seat an existing Order and each Order an existing Table; the
\* delete of a Table that has an Order, or of a MenuItem that has a SeatSelection,
\* is refused and changes nothing.
C21_ReferentialIntegrity ==
    [][/\ RefIntegrity /\ RefIntegrity'
       /\ \A t \in tables :
            (AdminDeleteTable(t) /\ \E o \in DOMAIN orders : orders[o].table = t) =>
                (response'.status = "protected" /\ tables' = tables /\ db' = db)
       /\ \A i \in items :
            (AdminDeleteItem(i) /\ \E x \in DOMAIN selections : selections[x].item = i) =>
                (response'.status = "protected" /\ items' = items /\ db' = db)]_vars

\* C21 happens: the delete of a table was refused because the table has an order
\* with seats.
C21_Witness ==
    /\ response.op = "admin_delete_table" /\ response.status = "protected"
    /\ \E s \in DOMAIN seats : orders[seats[s].order].table = response.target

\* C22: a join_order request with a valid explicit range for a table with an open
\* order, whatever other requests are in flight, ends in one of three ways: every
\* seat of its range is inserted; it is refused as a conflict by the pre-check with
\* no seat inserted; or it fails on the (order, label) constraint with no seat
\* inserted. In each case no order has two seats with one label afterwards.
C22_JoinRaceKeepsLabelsUnique ==
    [][\A t \in tables, post \in JoinPosts :
        (JoinsOpenOrder(t, post) /\ FormHasRange(post)) =>
            /\ \/ /\ response'.status = "ok"
                  /\ {seats'[s].label : s \in NewSeats}
                        = {StrOf(n) : n \in FormRange(post)}
               \/ response'.status = "conflict" /\ seats' = seats
               \/ response'.error = "IntegrityError" /\ seats' = seats
            /\ \A s1 \in DOMAIN seats', s2 \in DOMAIN seats' :
                    (s1 # s2 /\ seats'[s1].order = seats'[s2].order) =>
                        seats'[s1].label # seats'[s2].label]_vars

\* C23: every close_order that deletes an order appends one audit entry that names
\* the order and its table.
C23_CloseOrderAudited ==
    [][\A o \in DOMAIN orders :
        (CloseOrder(o) /\ o \notin DOMAIN orders') =>
            /\ Len(stafflog') = Len(stafflog) + 1
            /\ SubSeq(stafflog', 1, Len(stafflog)) = stafflog
            /\ stafflog'[Len(stafflog')].action = "closed order"
            /\ stafflog'[Len(stafflog')].order = o
            /\ stafflog'[Len(stafflog')].table = orders[o].table]_vars

\* C24: every step leaves the audit entries that were there in place and
\* unchanged: the log after the step begins with the log before it.
C24_AuditLogAppendOnly ==
    [][/\ Len(stafflog') >= Len(stafflog)
       /\ SubSeq(stafflog', 1, Len(stafflog)) = stafflog]_vars

\* C24 happens: the log holds the start of an order, a ticket printed for it and
\* its close, in that order.
C24_Witness ==
    /\ Len(stafflog) = 3
    /\ stafflog[1].action = "started order"
    /\ stafflog[2].action = "printed ticket for order"
    /\ stafflog[3].action = "closed order"

\* C25: when the write of the audit entry fails, start_order has still started
\* the order with its seats, close_order has still deleted the order, and
\* move_selection has still moved the selection.
C25_LogFailureHarmless ==
    [][/\ StartOrderLogFails =>
            (txn.order \in DOMAIN orders' /\ Cardinality(NewSeats) = Len(txn.labels))
       /\ \A o \in DOMAIN orders :
            CloseOrderLogFails(o) => o \notin DOMAIN orders'
       /\ \A x \in DOMAIN selections, target \in DOMAIN seats :
            MoveSelectionLogFails(x, target) => selections'[x].seat = target]_vars

\* C26: in every reachable state no two SeatSelection rows have the same seat
\* and the same item.
C26_OneSelectionPerSeatItem ==
    \A x, y \in DOMAIN selections :
        (selections[x].seat = selections[y].seat
            /\ selections[x].item = selections[y].item) => x = y

\* C27: close_order(o) leaves every other order as it was, with its seats and
\* the selections on them, also selections that were moved there from another
\* order; a selection is deleted exactly when the seat it is on belongs to o.
C27_CloseOrderFrame ==
    [][\A o \in DOMAIN orders :
        CloseOrder(o) =>
            /\ \A p \in DOMAIN orders \ {o} :
                    p \in DOMAIN orders' /\ orders'[p] = orders[p]
            /\ \A sid \in DOMAIN seats :
                    seats[sid].order # o =>
                        (sid \in DOMAIN seats' /\ seats'[sid] = seats[sid])
            /\ \A x \in DOMAIN selections :
                    IF selections[x].seat \in SeatsOf(o)
                    THEN x \notin DOMAIN selections'
                    ELSE x \in DOMAIN selections' /\ selections'[x] = selections[x]]_vars

\* an order has been closed and another order, of one seat, still carries two
\* selections of the same item: one of them was moved there from another order
C27_Witness ==
    /\ response.op = "close_order" /\ response.status = "ok"
    /\ response.target \notin DOMAIN orders
    /\ \E x, y \in DOMAIN selections :
            /\ x # y
            /\ selections[x].seat = selections[y].seat
            /\ selections[x].item = selections[y].item
            /\ selections[x].seat \in DOMAIN seats
            /\ seats[selections[x].seat].order \in DOMAIN orders
            /\ Cardinality(SeatsOf(seats[selections[x].seat].order)) = 1

\* str(n) for an integer n >= 1
PositiveDecimal(label) ==
    IsDigit(label) /\ IntOfDigits(label) >= 1 /\ StrOf(IntOfDigits(label)) = label

\* C28: every seat that start_order, join_order or add_seat creates is labelled
\* with the decimal string of an integer >= 1, and every order that start_order
\* creates has at least one seat.
C28_LabelsPositiveOrdersSeated ==
    [][/\ \A sid \in NewSeats : PositiveDecimal(seats'[sid].label)
       /\ StartCommits => \E sid \in NewSeats : seats'[sid].order = txn.order]_vars

\* the views decorated with staff_required
GuardedOps ==
    {"room_dashboard", "room_tables", "print_room_ticket", "print_ticket", "start_order"}

\* C29: staff_logout leaves the session without a staff identity; while the
\* session has none, every request to a view behind staff_required is answered
\* with the redirect to the login page and changes nothing; the session gets an
\* identity only through a staff_login whose code matches that member, and a
\* staff_login that fails leaves the session as it was.
C29_LogoutRevokesAccess ==
    [][/\ (response'.op = "staff_logout" /\ response' # response) => session' = 0
       /\ (session = 0 /\ nreq' = nreq + 1 /\ response'.op \in GuardedOps) =>
            /\ response'.status = "login"
            /\ UNCHANGED <<session, db, stafflog, txn, nextOrderId>>
       /\ (session = 0 /\ session' # 0) =>
            /\ response'.op = "staff_login" /\ response'.status = "ok"
            /\ \E code \in AllLoginCodes :
                    StaffLogin(code) /\ CheckCode(session', code)
       /\ (response'.op = "staff_login" /\ response'.status = "invalid") =>
            session' = session]_vars

\* a guarded page refuses a session that was logged in and has logged out: the
\* log holds an entry of the earlier login
C29_Witness ==
    /\ session = 0
    /\ stafflog # <<>>
    /\ response.op \in GuardedOps /\ response.status = "login"

\* the seats of order o that carry the label
Labelled(rows, o, label) ==
    {sid \in DOMAIN rows : rows[sid].order = o /\ rows[sid].label = label}

\* C30: when two add_seat requests for one order have read the same labels and
\* computed the same new label, the INSERT of the first creates the seat and the
\* INSERT of the second fails on the (order, label) constraint and creates
\* nothing, so the order never has two seats of that label.
C30_AddSeatRaceKeepsLabelsUnique ==
    [][\A w \in Slots :
        AddSeatCreate(w) =>
            LET o == adding[w].order
                auto_label == adding[w].label
            IN
            /\ Labelled(seats, o, auto_label) # {} =>
                    (seats' = seats /\ response'.error = "IntegrityError")
            /\ (o \in DOMAIN orders /\ Labelled(seats, o, auto_label) = {}) =>
                    (NewSeats # {} /\ NewSeats = Labelled(seats', o, auto_label))
            /\ Cardinality(Labelled(seats', o, auto_label)) <= 1]_vars

\* the second of two interleaved add_seat requests has failed on the constraint:
\* the order has the seat the first one created, and no other of that label
C30_Witness ==
    /\ response.op = "add_seat" /\ response.error = "IntegrityError"
    /\ response.target \in DOMAIN orders
    /\ \E sid \in SeatsOf(response.target) :
            /\ seats[sid].label = StrOf(NextNumber(response.target) - 1)
            /\ sid = nextSeatId - 1
    /\ \A w \in Slots : ~adding[w].active

====
